---- MODULE Spec2Model ----
(***************************************************************************)
(* SnapList API: listing lifecycle, price decay, sold reconciliation and   *)
(* the payout ledger.  The store (Supabase tables listings, price_history, *)
(* profits, payout_requests) is the shared state; every route handler and  *)
(* service function is a sequence of steps separated by its awaits.        *)
(* Prices are integers in cents, amounts of the ledger integers in dollars,*)
(* time is counted in days.                                                *)
(***************************************************************************)
EXTENDS Integers, Sequences, FiniteSets, TLC

\* ------------------------------------------------------------ bounds ----
\* the rows, clients and request bodies of the model
ListingIds == {"L1"}
Users == {"u1", "u2"}
Requests == {"r1", "r2"}
Job == "job"
Procs == Requests \cup {Job}

MaxNow == 8
MaxHist == 2
MaxProfits == 2
MaxPayouts == 3
MaxFaults == 1

TickSteps == {4}
CreatePrices == {10}
CreateMinPrices == {-1, 9}
ManualPrices == {4, 12}
EditMinPrices == {11}
EditStatuses == {"active", "sold", "ended"}
AdminPrices == {12}
PayoutAmounts == {10, 50, 90}
DecayPrices == {10000, 8100, 6561, 5200, 115}
DecayMinPrices == {5000, 50}
JobListingIds == {"L1", "L2"}
JobPrices == {5200, 4}
JobMinPrices == {5000, 2}
ScheduledPrices == {5200, 5500}
CreationPrices == {10, 29, 115, 250, 999}
CreationMinPrices == {-1, 0, 9}

\* ------------------------------------------------- program constants ----
SevenDays == 7
MinPayout == 50
ValidStatuses == {"active", "pending", "sold", "ended"}

VARIABLES listings, price_history, profits, payout_requests, notifications,
          now, faults, pc, lid, snap, arg, jobQueue, res

vars == <<listings, price_history, profits, payout_requests, notifications,
          now, faults, pc, lid, snap, arg, jobQueue, res>>

storeVars == <<listings, price_history, profits, payout_requests, notifications>>
procVars == <<pc, lid, snap, arg, res>>

\* ---------------------------------------------------------- helpers ----
NoRow == [row |-> "unused", user_id |-> "u1", status |-> "none", price |-> 0,
          original_price |-> 0, min_price |-> 0, last_price_update |-> 0,
          ebay_listing_id |-> FALSE, facebook_listing_id |-> FALSE]

\* the request body and the locals of a handler: -1 and "none" stand for a
\* field that is not supplied, an adapter that was not called
NoArg == [price |-> -1, status |-> "none", min_price |-> -1, amount |-> 0,
          user_id |-> "u1", soldPlatform |-> "none", totalProfit |-> 0,
          ebayResult |-> "none", facebookResult |-> "none",
          ebayUpdateResult |-> "none", fbUpdateResult |-> "none",
          availableAmount |-> 0, payoutId |-> 0]

NoNotifications == [price_reduction |-> 0, item_sold |-> 0]

Present(l) == listings[l].row = "present"

\* what a handler keeps of the row it read: the fields it uses later
NoSnap == [price |-> 0, min_price |-> 0,
           ebay_listing_id |-> FALSE, facebook_listing_id |-> FALSE]
Snapshot(row) == [price |-> row.price, min_price |-> row.min_price,
                  ebay_listing_id |-> row.ebay_listing_id,
                  facebook_listing_id |-> row.facebook_listing_id]

\* the prices up to 100.00, in cents, at which 9c/10 ends in one half and the
\* double product (c / 100) * 0.9 * 100 falls just below that half
TieRoundsDown ==
    {115, 265, 435, 535, 935, 945, 1045, 1615, 1715, 1965, 1995, 2015, 2215,
     2245, 2265, 3305, 3355, 3555, 3615, 3655, 3805, 3865, 3905, 4055, 4115,
     4155, 4305, 4365, 4405, 6485, 6585, 6735, 6835, 6985, 7085, 7185, 7235,
     7355, 7435, 7485, 7605, 7685, 7735, 7855, 7935, 7985, 8105, 8185, 8235,
     8355, 8435, 8485, 8605, 8685, 8735, 8855, 8935, 8985}

\* a rounding that drops the fraction of a cent
RoundCentsTruncated(c) == (9 * c) \div 10

\* Math.round(x * 0.9 * 100) / 100 on a price of c cents, in double
\* arithmetic: 9c/10 rounded to the nearest cent, a tie upwards unless the
\* product falls below it
RoundCents(c) ==
    IF c \in TieRoundsDown THEN (9 * c) \div 10 ELSE (9 * c + 5) \div 10

\* the prices up to 10.00, in cents, at which c/2 ends in one half and the
\* double product (c / 100) * 0.5 * 100 falls just below that half
HalfRoundsDown ==
    {29, 57, 113, 115, 201, 203, 205, 207, 251, 253, 255, 427, 431, 435,
     439, 477, 481, 485, 489, 803, 829, 837, 845, 853, 879, 887, 895, 903,
     929, 937, 945, 953, 979, 987, 995}

\* a minimum price kept to one decimal place
HalfCentsOneDecimal(c) == 10 * ((c + 10) \div 20)

\* Math.round(price * 0.5 * 100) / 100 on a price of c cents, in double
\* arithmetic: c/2 rounded to the nearest cent, a tie upwards unless the
\* product falls below it
HalfCents(c) ==
    IF c \in HalfRoundsDown THEN (c - 1) \div 2 ELSE (c + 1) \div 2

Finish(p, r) ==
    /\ pc' = [pc EXCEPT ![p] = "idle"]
    /\ lid' = lid
    /\ snap' = [snap EXCEPT ![p] = NoSnap]
    /\ arg' = [arg EXCEPT ![p] = NoArg]
    /\ res' = [res EXCEPT ![p] = r]

Goto(p, label) ==
    /\ pc' = [pc EXCEPT ![p] = label]
    /\ UNCHANGED <<lid, snap, arg, res>>

\* a store call either succeeds or returns an error; the number of errors
\* the store returns in one run is bounded
Store(ok) ==
    /\ ok \/ faults < MaxFaults
    /\ faults' = IF ok THEN faults ELSE faults + 1

\* two store calls made one after the other in one step
Store2(ok1, ok2) ==
    LET n == (IF ok1 THEN 0 ELSE 1) + (IF ok2 THEN 0 ELSE 1)
    IN /\ faults + n <= MaxFaults
       /\ faults' = faults + n

\* ------------------------------------------------------------- Init ----
Init ==
    /\ listings = [l \in ListingIds |-> NoRow]
    /\ price_history = [l \in ListingIds |-> <<>>]
    /\ profits = <<>>
    /\ payout_requests = <<>>
    /\ notifications = NoNotifications
    /\ now = 0
    /\ faults = 0
    /\ pc = [p \in Procs |-> "idle"]
    /\ lid = [p \in Procs |-> "L1"]
    /\ snap = [p \in Procs |-> NoSnap]
    /\ arg = [p \in Procs |-> NoArg]
    /\ res = [p \in Procs |-> "none"]
    /\ jobQueue = <<>>

\* the clock
Tick ==
    /\ \E d \in TickSteps : now + d <= MaxNow /\ now' = now + d
    /\ UNCHANGED <<storeVars, procVars, jobQueue, faults>>

\* ------------------------------------------- POST /api/listings ---------
\* lines 103-171: insert of the listing row; min_price defaults to 50% of
\* the price (m = -1 stands for "min_price not supplied")
CreateListingWith(p, Prices, MinPrices) ==
    /\ pc[p] = "idle" /\ p \in Requests
    /\ \E l \in ListingIds, u \in {"u1"}, c \in Prices, m \in MinPrices :
        /\ listings[l].row = "unused"
        /\ listings' = [listings EXCEPT ![l] =
              [row |-> "present", user_id |-> u, status |-> "active", price |-> c,
               original_price |-> c,
               min_price |-> IF m = -1 THEN HalfCents(c) ELSE m,
               last_price_update |-> now,
               ebay_listing_id |-> FALSE, facebook_listing_id |-> FALSE]]
        /\ pc' = [pc EXCEPT ![p] = "create_ids"]
        /\ lid' = [lid EXCEPT ![p] = l]
        /\ arg' = [arg EXCEPT ![p] = [NoArg EXCEPT !.price = c, !.min_price = m]]
    /\ UNCHANGED <<price_history, profits, payout_requests, notifications, now, faults,
                   snap, res, jobQueue>>

CreateListing(p) == CreateListingWith(p, CreatePrices, CreateMinPrices)

\* the marketplace publish calls returned; the ids they gave are stored
CreateListingIds(p, Published) ==
    /\ pc[p] = "create_ids"
    /\ \E e \in Published, f \in Published, ok \in BOOLEAN :
        /\ Store(ok)
        /\ (e \/ f) \/ ok
        /\ listings' = IF Present(lid[p]) /\ ok /\ (e \/ f)
                       THEN [listings EXCEPT ![lid[p]].ebay_listing_id = e,
                                               ![lid[p]].facebook_listing_id = f]
                       ELSE listings
    /\ Finish(p, "created")
    /\ UNCHANGED <<price_history, profits, payout_requests, notifications, now, jobQueue>>

\* --------------------------------- priceService.reduceListingPrice ------
\* the price the reduction writes, from the snapshot it was given
ReducedPrice(listing) ==
    IF RoundCents(listing.price) < listing.min_price
    THEN listing.min_price
    ELSE RoundCents(listing.price)

\* a skip test that lets a price equal to the minimum through
AtMinimumStrict(listing) == listing.price < listing.min_price

\* line 60: the skip test
AtMinimum(listing) == listing.price <= listing.min_price

\* a run that ends at the first listing whose reduction failed
AfterReduceStopOnError(p, r) ==
    IF p = Job
    THEN IF Len(jobQueue) > 1 /\ r # "error"
         THEN /\ jobQueue' = Tail(jobQueue)
              /\ pc' = [pc EXCEPT ![p] = "rlp_hist"]
              /\ lid' = [lid EXCEPT ![p] = jobQueue[2].id]
              /\ snap' = [snap EXCEPT ![p] = jobQueue[2].row]
              /\ arg' = [arg EXCEPT ![p] = NoArg]
              /\ UNCHANGED res
         ELSE /\ jobQueue' = <<>>
              /\ Finish(p, res[p])
    ELSE Finish(p, r) /\ UNCHANGED jobQueue

\* what a process does when reduceListingPrice returns
AfterReduce(p, r) ==
    IF p = Job
    THEN /\ jobQueue' = Tail(jobQueue)
         /\ IF Len(jobQueue) > 1
            THEN /\ pc' = [pc EXCEPT ![p] = "rlp_hist"]
                 /\ lid' = [lid EXCEPT ![p] = jobQueue[2].id]
                 /\ snap' = [snap EXCEPT ![p] = jobQueue[2].row]
                 /\ arg' = [arg EXCEPT ![p] = NoArg]
                 /\ UNCHANGED res
            ELSE Finish(p, res[p])
    ELSE Finish(p, r) /\ UNCHANGED jobQueue

\* what a marketplace adapter's update call returns
UpdateResults == {"ok", "error"}

\* the adapter is called when the listing has the marketplace's id
AdapterCall(published, result) == IF published THEN result ELSE "none"

\* a reduction that gives up when the eBay call failed
ProceedOnlyIfEbayOk(ebayUpdateResult, fbUpdateResult) ==
    ebayUpdateResult # "error"

\* lines 73-75, 84-86: a failed adapter call is logged and nothing else
ProceedAfterAdapters(ebayUpdateResult, fbUpdateResult) == TRUE

\* lines 49-101: the skip test, the adapter calls and the history insert
RlpHistory(p) ==
    /\ pc[p] = "rlp_hist"
    /\ IF AtMinimum(snap[p])
       THEN /\ AfterReduce(p, "at_minimum")
            /\ UNCHANGED <<storeVars, faults>>
       ELSE \E eb \in UpdateResults, fb \in UpdateResults :
            LET e == AdapterCall(snap[p].ebay_listing_id, eb)
                f == AdapterCall(snap[p].facebook_listing_id, fb)
            IN IF ProceedAfterAdapters(e, f)
               THEN /\ Len(price_history[lid[p]]) < MaxHist
                    /\ \E ok \in BOOLEAN :
                        /\ Store(ok)
                        /\ price_history' = IF ok
                            THEN [price_history EXCEPT ![lid[p]] = Append(@,
                                    [previous_price |-> snap[p].price,
                                     new_price |-> ReducedPrice(snap[p]),
                                     reason |-> "automatic", created_at |-> now])]
                            ELSE price_history
                    /\ pc' = [pc EXCEPT ![p] = "rlp_upd"]
                    /\ arg' = [arg EXCEPT ![p].ebayUpdateResult = e,
                                          ![p].fbUpdateResult = f]
                    /\ UNCHANGED <<lid, snap, res>>
                    /\ UNCHANGED <<listings, profits, payout_requests,
                                   notifications, jobQueue>>
               ELSE /\ AfterReduce(p, "error")
                    /\ UNCHANGED <<storeVars, faults>>
    /\ UNCHANGED now

\* lines 103-130: the update of the listing row and the notification
RlpUpdate(p) ==
    /\ pc[p] = "rlp_upd"
    /\ \E ok \in BOOLEAN, sent \in BOOLEAN :
        /\ ok \/ sent
        /\ Store2(ok, sent)
        /\ listings' = IF ok /\ Present(lid[p])
                       THEN [listings EXCEPT ![lid[p]].price = ReducedPrice(snap[p]),
                                               ![lid[p]].last_price_update = now]
                       ELSE listings
        /\ notifications' = IF ok /\ sent
                            THEN [notifications EXCEPT !.price_reduction = @ + 1]
                            ELSE notifications
        /\ AfterReduce(p, IF ok THEN "ok" ELSE "error")
    /\ UNCHANGED <<price_history, profits, payout_requests, now>>

\* ------------------------------ priceService.schedulePriceReductions ----
\* a selection without the status filter
EligibleAnyStatus(l) ==
    /\ Present(l)
    /\ listings[l].last_price_update < now - SevenDays

\* a selection without the 7-day gate
EligibleNoGate(l) ==
    /\ Present(l)
    /\ listings[l].status = "active"

\* lines 15-22: the rows the scheduled job selects
Eligible(l) ==
    /\ Present(l)
    /\ listings[l].status = "active"
    /\ listings[l].last_price_update < now - SevenDays

RECURSIVE SetToSeq(_)
SetToSeq(S) ==
    IF S = {} THEN <<>>
    ELSE LET x == CHOOSE y \in S : TRUE
         IN <<x>> \o SetToSeq(S \ {x})

SchedulePriceReductions ==
    /\ pc[Job] = "idle"
    /\ \E ok \in BOOLEAN :
        /\ Store(ok)
        /\ LET sel == IF ok THEN SetToSeq({l \in DOMAIN listings : Eligible(l)}) ELSE <<>>
               q == [i \in 1..Len(sel) |->
                        [id |-> sel[i], row |-> Snapshot(listings[sel[i]])]]
           IN /\ jobQueue' = q
              /\ IF q = <<>>
                 THEN /\ res' = [res EXCEPT ![Job] = IF ok THEN "nothing" ELSE "error"]
                      /\ UNCHANGED <<pc, lid, snap, arg>>
                 ELSE /\ pc' = [pc EXCEPT ![Job] = "rlp_hist"]
                      /\ lid' = [lid EXCEPT ![Job] = q[1].id]
                      /\ snap' = [snap EXCEPT ![Job] = q[1].row]
                      /\ res' = [res EXCEPT ![Job] = "selected"]
                      /\ UNCHANGED arg
    /\ UNCHANGED <<storeVars, now>>

\* --------------------------- POST /api/listings/:id/reduce-price --------
ReducePriceRoute(p) ==
    /\ pc[p] = "idle" /\ p \in Requests
    /\ \E l \in ListingIds :
        /\ Present(l)
        /\ pc' = [pc EXCEPT ![p] = "rlp_hist"]
        /\ lid' = [lid EXCEPT ![p] = l]
        /\ snap' = [snap EXCEPT ![p] = Snapshot(listings[l])]
    /\ UNCHANGED <<storeVars, now, faults, arg, res, jobQueue>>

\* ------------------------------ priceService.updateListingPrice ---------
\* lines 145-159: the function's own read of the listing
UlpRead(p) ==
    /\ pc[p] = "ulp_read"
    /\ \E ok \in BOOLEAN :
        /\ Store(ok)
        /\ IF ok /\ Present(lid[p])
           THEN /\ pc' = [pc EXCEPT ![p] = "ulp_hist"]
                /\ snap' = [snap EXCEPT ![p] = Snapshot(listings[lid[p]])]
                /\ UNCHANGED <<lid, arg, res>>
           ELSE Finish(p, "error")
    /\ UNCHANGED <<storeVars, now, jobQueue>>

\* the test updateListingPrice makes on the new price before it writes: none
PriceAccepted(listing, newPrice) == TRUE

\* lines 161-197: the adapter calls and the history insert
UlpHistory(p) ==
    /\ pc[p] = "ulp_hist"
    /\ IF PriceAccepted(snap[p], arg[p].price)
       THEN /\ Len(price_history[lid[p]]) < MaxHist
            /\ \E ok \in BOOLEAN :
                /\ Store(ok)
                /\ price_history' = IF ok
                    THEN [price_history EXCEPT ![lid[p]] = Append(@,
                            [previous_price |-> snap[p].price,
                             new_price |-> arg[p].price,
                             reason |-> "manual", created_at |-> now])]
                    ELSE price_history
            /\ \E eb \in UpdateResults, fb \in UpdateResults :
                arg' = [arg EXCEPT
                    ![p].ebayUpdateResult = AdapterCall(snap[p].ebay_listing_id, eb),
                    ![p].fbUpdateResult = AdapterCall(snap[p].facebook_listing_id, fb)]
            /\ pc' = [pc EXCEPT ![p] = "ulp_upd"]
            /\ UNCHANGED <<lid, snap, res>>
       ELSE /\ Finish(p, "rejected")
            /\ UNCHANGED <<price_history, faults>>
    /\ UNCHANGED <<listings, profits, payout_requests, notifications, now, jobQueue>>

\* lines 199-218: the update of the listing row; the caller goes on with
\* its other updates when it succeeded
UlpUpdate(p) ==
    /\ pc[p] = "ulp_upd"
    /\ \E ok \in BOOLEAN :
        /\ Store(ok)
        /\ listings' = IF ok /\ Present(lid[p])
                       THEN [listings EXCEPT ![lid[p]].price = arg[p].price,
                                               ![lid[p]].last_price_update = now]
                       ELSE listings
        /\ IF ok THEN Goto(p, "put_upd") ELSE Finish(p, "error")
    /\ UNCHANGED <<price_history, profits, payout_requests, notifications, now, jobQueue>>

\* ------------------------------------ PUT /api/listings/:id -------------
\* the request body: -1 and "none" stand for a field that is not supplied
PriceBodies == { [NoArg EXCEPT !.price = c] : c \in ManualPrices }

LowPriceBodies == { b \in PriceBodies : b.price < 10 }

StatusBodies == { [NoArg EXCEPT !.status = s] : s \in EditStatuses }

PutBodies ==
    PriceBodies \cup StatusBodies
    \cup { [NoArg EXCEPT !.min_price = m] : m \in EditMinPrices }
    \cup { [NoArg EXCEPT !.price = c, !.status = s] : c \in ManualPrices, s \in {"ended"} }

\* lines 235-267: the read of the existing listing and the price test
PutListing(p, Bodies) ==
    /\ pc[p] = "idle" /\ p \in Requests
    /\ \E l \in ListingIds, b \in Bodies :
        /\ Present(l)
        /\ lid' = [lid EXCEPT ![p] = l]
        /\ arg' = [arg EXCEPT ![p] = b]
        /\ pc' = [pc EXCEPT ![p] =
              IF b.price # -1 /\ b.price # listings[l].price
              THEN "ulp_read" ELSE "put_upd"]
    /\ UNCHANGED <<storeVars, now, faults, snap, res, jobQueue>>

\* lines 269-332: the update of the other fields
PutUpdate(p) ==
    /\ pc[p] = "put_upd"
    /\ IF arg[p].status # "none" \/ arg[p].min_price # -1
       THEN \E ok \in BOOLEAN :
             /\ Store(ok)
             /\ listings' = IF ok /\ Present(lid[p])
                  THEN [listings EXCEPT
                         ![lid[p]].status =
                             IF arg[p].status # "none" THEN arg[p].status ELSE @,
                         ![lid[p]].min_price =
                             IF arg[p].min_price # -1 THEN arg[p].min_price ELSE @]
                  ELSE listings
             /\ Finish(p, IF ok THEN "ok" ELSE "error")
       ELSE /\ UNCHANGED <<listings, faults>>
            /\ Finish(p, "ok")
    /\ UNCHANGED <<price_history, profits, payout_requests, notifications, now, jobQueue>>

\* ------------------------------------ DELETE /api/listings/:id ----------
\* what a marketplace adapter's end call returns
EndResults == {"ok", "error"}

\* a removal that gives up when an end call failed
RemoveOnlyIfEnded(ebayEndResult, fbEndResult) ==
    ebayEndResult # "error" /\ fbEndResult # "error"

\* lines 359-368: what the end calls return is not looked at
RemoveAfterEnd(ebayEndResult, fbEndResult) == TRUE

\* lines 344-366: the row is read, then the listing is ended on each
\* marketplace it has an id of
DeleteListing(p) ==
    /\ pc[p] = "idle" /\ p \in Requests
    /\ \E l \in ListingIds, ok \in BOOLEAN, eb \in EndResults, fb \in EndResults :
        /\ Present(l)
        /\ Store(ok)
        /\ LET e == AdapterCall(listings[l].ebay_listing_id, eb)
               f == AdapterCall(listings[l].facebook_listing_id, fb)
           IN IF ok /\ RemoveAfterEnd(e, f)
              THEN /\ lid' = [lid EXCEPT ![p] = l]
                   /\ pc' = [pc EXCEPT ![p] = "del_delete"]
                   /\ snap' = [snap EXCEPT ![p] = Snapshot(listings[l])]
                   /\ arg' = [arg EXCEPT ![p] =
                         [NoArg EXCEPT !.ebayResult = e, !.facebookResult = f]]
                   /\ res' = res
              ELSE /\ lid' = [lid EXCEPT ![p] = l]
                   /\ pc' = pc /\ snap' = snap /\ arg' = arg
                   /\ res' = [res EXCEPT ![p] = IF ok THEN "error" ELSE "not_found"]
    /\ UNCHANGED <<storeVars, now, jobQueue>>

\* lines 368-384: the row is deleted
DeleteRow(p) ==
    /\ pc[p] = "del_delete"
    /\ \E ok \in BOOLEAN :
        /\ Store(ok)
        /\ listings' = IF ok /\ Present(lid[p])
                       THEN [listings EXCEPT ![lid[p]] = [NoRow EXCEPT !.row = "deleted"]]
                       ELSE listings
        /\ Finish(p, IF ok THEN "ok" ELSE "error")
    /\ UNCHANGED <<price_history, profits, payout_requests, notifications, now, jobQueue>>

\* ------------------------------------ PUT /api/admin/listings/:id -------
AdminBodies ==
    { [NoArg EXCEPT !.price = c] : c \in AdminPrices }
    \cup { [NoArg EXCEPT !.status = s] : s \in EditStatuses }

AdminUpdateListing ==
    /\ \E l \in ListingIds, b \in AdminBodies :
        /\ Present(l)
        /\ listings' = [listings EXCEPT
              ![l].price = IF b.price # -1 THEN b.price ELSE @,
              ![l].status = IF b.status # "none" THEN b.status ELSE @]
    /\ UNCHANGED <<price_history, profits, payout_requests, notifications, now, faults,
                   procVars, jobQueue>>

\* ------------------------------- PUT /api/admin/listings/:id/status -----
AdminUpdateStatus ==
    /\ \E l \in ListingIds, s \in ValidStatuses :
        /\ Present(l)
        /\ listings' = [listings EXCEPT ![l].status = s]
    /\ UNCHANGED <<price_history, profits, payout_requests, notifications, now, faults,
                   procVars, jobQueue>>

\* ------------------------------ GET /api/listings/:id/check-sold --------
\* what a marketplace adapter's check-sold call returns
AdapterResults == {"sold", "unsold", "error"}

\* an attribution that takes every answer but "not sold" for a sale
SoldPlatformErrorAsSold(listing, ebay, facebook) ==
    IF listing.ebay_listing_id /\ ebay # "unsold" THEN "ebay"
    ELSE IF listing.facebook_listing_id /\ facebook # "unsold" THEN "facebook"
    ELSE "none"

\* lines 421-441: eBay is asked first, Facebook only when eBay did not
\* report the item sold ("none": the adapter was not called)
SoldPlatform(listing, ebay, facebook) ==
    IF listing.ebay_listing_id /\ ebay = "sold" THEN "ebay"
    ELSE IF listing.facebook_listing_id /\ facebook = "sold" THEN "facebook"
    ELSE "none"

\* line 434: Facebook is asked when the listing is published there and eBay
\* did not report the item sold
FacebookQueried(listing, ebay) ==
    listing.facebook_listing_id /\ ~(listing.ebay_listing_id /\ ebay = "sold")

\* lines 398-441: the read of the listing and the adapter calls
CheckSold(p) ==
    /\ pc[p] = "idle" /\ p \in Requests
    /\ \E l \in ListingIds, e \in AdapterResults, f \in AdapterResults :
        /\ Present(l)
        /\ IF listings[l].status = "sold"
           THEN /\ res' = [res EXCEPT ![p] = "already_sold"]
                /\ UNCHANGED <<pc, lid, snap, arg>>
           ELSE /\ pc' = [pc EXCEPT ![p] = "cs_status"]
                /\ lid' = [lid EXCEPT ![p] = l]
                /\ snap' = [snap EXCEPT ![p] = Snapshot(listings[l])]
                /\ arg' = [arg EXCEPT ![p] =
                      [NoArg EXCEPT
                         !.soldPlatform = SoldPlatform(listings[l], e, f),
                         !.user_id = listings[l].user_id,
                         !.ebayResult = AdapterCall(listings[l].ebay_listing_id, e),
                         !.facebookResult =
                             AdapterCall(FacebookQueried(listings[l], e), f)]]
                /\ UNCHANGED res
    /\ UNCHANGED <<storeVars, now, faults, jobQueue>>

\* lines 441-456: the pass ends when no marketplace reported the item sold;
\* otherwise the status update, whose error is logged and the pass goes on
CsStatus(p) ==
    /\ pc[p] = "cs_status"
    /\ IF arg[p].soldPlatform = "none"
       THEN /\ Finish(p, "not_sold")
            /\ UNCHANGED <<listings, faults>>
       ELSE /\ \E ok \in BOOLEAN :
                /\ Store(ok)
                /\ listings' = IF ok /\ Present(lid[p])
                               THEN [listings EXCEPT ![lid[p]].status = "sold"]
                               ELSE listings
            /\ Goto(p, "cs_profit")
    /\ UNCHANGED <<price_history, profits, payout_requests, notifications, now,
                   jobQueue>>

\* lines 458-481: the insert of the profit record and the notification
CsProfit(p) ==
    /\ pc[p] = "cs_profit"
    /\ Len(profits) < MaxProfits
    /\ \E ok \in BOOLEAN, sent \in BOOLEAN :
        /\ Store2(ok, sent)
        /\ profits' = IF ok
                      THEN Append(profits,
                             [listing_id |-> lid[p], user_id |-> arg[p].user_id,
                              amount |-> snap[p].price, fees |-> 0, shipping_cost |-> 0,
                              platform |-> arg[p].soldPlatform, status |-> "pending"])
                      ELSE profits
        /\ notifications' = IF sent
                            THEN [notifications EXCEPT !.item_sold = @ + 1]
                            ELSE notifications
    /\ Finish(p, "sold")
    /\ UNCHANGED <<listings, price_history, payout_requests, now, jobQueue>>

\* ------------------------------------ PUT /api/profits/:id --------------
\* the external confirmation of a settlement: status completed
CompleteProfit ==
    /\ \E i \in 1..Len(profits) :
        /\ profits[i].status = "pending"
        /\ profits' = [profits EXCEPT ![i].status = "completed"]
    /\ UNCHANGED <<listings, price_history, payout_requests, notifications, now, faults,
                   procVars, jobQueue>>

\* ------------------------- payoutService.getUserAvailablePayoutAmount ---
RECURSIVE SumNet(_, _)
\* lines 10-26: the net amounts of the user's completed profits
SumNet(rows, u) ==
    IF rows = <<>> THEN 0
    ELSE (IF Head(rows).user_id = u /\ Head(rows).status = "completed"
          THEN Head(rows).amount - Head(rows).fees - Head(rows).shipping_cost
          ELSE 0) + SumNet(Tail(rows), u)

\* a computation that forgets the pending requests
PaidOutStatusesCompletedOnly == {"completed"}

\* a computation that also counts the rejected requests
PaidOutStatusesWithRejected == {"completed", "pending", "rejected"}

\* line 33: the payout requests that count as paid out
PaidOutStatuses == {"completed", "pending"}

RECURSIVE SumPaidOut(_, _)
\* lines 29-40: the amounts of the user's payout requests that count
SumPaidOut(rows, u) ==
    IF rows = <<>> THEN 0
    ELSE (IF Head(rows).user_id = u /\ Head(rows).status \in PaidOutStatuses
          THEN Head(rows).amount ELSE 0) + SumPaidOut(Tail(rows), u)

\* ------------------------------- payoutService.createPayoutRequest ------
\* POST /api/payouts: the body is checked and the profits are read
CreatePayoutRequest(p) ==
    /\ pc[p] = "idle" /\ p \in Requests
    /\ \E u \in Users, a \in PayoutAmounts, ok \in BOOLEAN :
        /\ Store(ok)
        /\ IF ok
           THEN /\ pc' = [pc EXCEPT ![p] = "pay_payouts"]
                /\ arg' = [arg EXCEPT ![p] =
                      [NoArg EXCEPT !.user_id = u, !.amount = a,
                                    !.totalProfit = SumNet(profits, u)]]
                /\ UNCHANGED <<lid, snap, res>>
           ELSE Finish(p, "error")
    /\ UNCHANGED <<storeVars, now, jobQueue>>

\* lines 71-83: the two tests on the available amount
PayoutDecision(available, amount) ==
    IF available < MinPayout THEN "rejected"
    ELSE IF available < amount THEN "rejected"
    ELSE "accepted"

\* lines 29-83: the payout requests are read, the available amount is
\* computed and tested
PayoutCheck(p) ==
    /\ pc[p] = "pay_payouts"
    /\ \E ok \in BOOLEAN :
        /\ Store(ok)
        /\ IF ~ok THEN Finish(p, "error")
           ELSE IF PayoutDecision(arg[p].totalProfit
                                    - SumPaidOut(payout_requests, arg[p].user_id),
                                  arg[p].amount) = "accepted"
           THEN Goto(p, "pay_insert")
           ELSE Finish(p, "rejected")
    /\ UNCHANGED <<storeVars, now, jobQueue>>

\* lines 85-102: the insert of the payout request
PayoutInsert(p) ==
    /\ pc[p] = "pay_insert"
    /\ Len(payout_requests) < MaxPayouts
    /\ \E ok \in BOOLEAN :
        /\ Store(ok)
        /\ payout_requests' = IF ok
              THEN Append(payout_requests,
                     [user_id |-> arg[p].user_id, amount |-> arg[p].amount,
                      status |-> "pending"])
              ELSE payout_requests
        /\ Finish(p, IF ok THEN "accepted" ELSE "error")
    /\ UNCHANGED <<listings, price_history, profits, notifications, now, jobQueue>>

\* ------------------ GET /api/payouts/available/:userId (profits.js) -----
\* payoutService lines 10-26: the user's completed profits are read and
\* their net amounts are summed
GetAvailable(p) ==
    /\ pc[p] = "idle" /\ p \in Requests
    /\ \E u \in Users, ok \in BOOLEAN :
        /\ Store(ok)
        /\ IF ok
           THEN /\ pc' = [pc EXCEPT ![p] = "avail_payouts"]
                /\ arg' = [arg EXCEPT ![p] =
                      [NoArg EXCEPT !.user_id = u,
                                    !.totalProfit = SumNet(profits, u)]]
                /\ UNCHANGED <<lid, snap, res>>
           ELSE Finish(p, "error")
    /\ UNCHANGED <<storeVars, now, jobQueue>>

\* payoutService lines 29-48: the payout requests are read and the available
\* amount is the total profit minus what they sum to
AvailPayouts(p) ==
    /\ pc[p] = "avail_payouts"
    /\ \E ok \in BOOLEAN :
        /\ Store(ok)
        /\ IF ok
           THEN /\ pc' = [pc EXCEPT ![p] = "avail_done"]
                /\ arg' = [arg EXCEPT ![p].availableAmount =
                      arg[p].totalProfit
                        - SumPaidOut(payout_requests, arg[p].user_id)]
                /\ UNCHANGED <<lid, snap, res>>
           ELSE Finish(p, "error")
    /\ UNCHANGED <<storeVars, now, jobQueue>>

\* profits.js lines 249-256: the route answers with the amount
AvailRespond(p) ==
    /\ pc[p] = "avail_done"
    /\ Finish(p, "ok")
    /\ UNCHANGED <<storeVars, now, faults, jobQueue>>

\* ----------------------------------- PUT /api/profits/:id, any status ----
\* profits.js line 115: the statuses the route accepts
ProfitStatuses == {"pending", "completed"}

\* profits.js lines 110-150: the status of the row is overwritten
PutProfitStatus ==
    /\ \E i \in 1..Len(profits), s \in ProfitStatuses :
        /\ profits[i].status # s
        /\ profits' = [profits EXCEPT ![i].status = s]
    /\ UNCHANGED <<listings, price_history, payout_requests, notifications, now, faults,
                   procVars, jobQueue>>

\* ------------------------------ PUT /api/payouts/:payoutId (profits.js) --
\* profits.js line 334: the statuses the route accepts
PayoutUpdateStatuses == {"completed", "rejected"}

\* profits.js lines 329-355 and payoutService.updatePayoutStatus 141-170
PutPayoutStatus ==
    /\ \E i \in 1..Len(payout_requests), s \in PayoutUpdateStatuses :
        /\ payout_requests[i].status # s
        /\ payout_requests' = [payout_requests EXCEPT ![i].status = s]
    /\ UNCHANGED <<listings, price_history, profits, notifications, now, faults,
                   procVars, jobQueue>>

\* ---------------------------- POST /api/admin/process-payout/:id --------
\* admin.js lines 718-747: the row is set to completed by its id
AdminProcessPayout ==
    /\ \E i \in 1..Len(payout_requests) :
        /\ payout_requests[i].status # "completed"
        /\ payout_requests' = [payout_requests EXCEPT ![i].status = "completed"]
    /\ UNCHANGED <<listings, price_history, profits, notifications, now, faults,
                   procVars, jobQueue>>

\* ---------------------------- POST /api/admin/payouts/process-all -------
\* admin.js lines 758-800: every row that is pending is set to completed
AdminProcessAll ==
    /\ \E i \in 1..Len(payout_requests) : payout_requests[i].status = "pending"
    /\ payout_requests' =
          [i \in 1..Len(payout_requests) |->
             IF payout_requests[i].status = "pending"
             THEN [payout_requests[i] EXCEPT !.status = "completed"]
             ELSE payout_requests[i]]
    /\ UNCHANGED <<listings, price_history, profits, notifications, now, faults,
                   procVars, jobQueue>>

\* ---------------------------- POST /api/admin/payouts/:id/process -------
\* admin.js lines 818-838: the row is read; a row that is not pending is
\* refused
AdminProcessOne(p) ==
    /\ pc[p] = "idle" /\ p \in Requests
    /\ \E i \in 1..Len(payout_requests), ok \in BOOLEAN :
        /\ Store(ok)
        /\ IF ~ok THEN Finish(p, "not_found")
           ELSE IF payout_requests[i].status # "pending"
           THEN Finish(p, "rejected")
           ELSE /\ pc' = [pc EXCEPT ![p] = "apo_update"]
                /\ arg' = [arg EXCEPT ![p] = [NoArg EXCEPT !.payoutId = i]]
                /\ UNCHANGED <<lid, snap, res>>
    /\ UNCHANGED <<storeVars, now, jobQueue>>

\* admin.js lines 841-853: the row is set to completed by its id
ApoUpdate(p) ==
    /\ pc[p] = "apo_update"
    /\ \E ok \in BOOLEAN :
        /\ Store(ok)
        /\ payout_requests' = IF ok
              THEN [payout_requests EXCEPT ![arg[p].payoutId].status = "completed"]
              ELSE payout_requests
        /\ Finish(p, IF ok THEN "ok" ELSE "error")
    /\ UNCHANGED <<listings, price_history, profits, notifications, now, jobQueue>>

\* the pricing system: one client request at a time beside the scheduled job
PriceProcs == {"r1", Job}

Next ==
    \/ Tick
    \/ \E p \in PriceProcs \ {Job} : CreateListing(p)
    \/ \E p \in PriceProcs : CreateListingIds(p, {TRUE})
    \/ SchedulePriceReductions
    \/ \E p \in PriceProcs : RlpHistory(p)
    \/ \E p \in PriceProcs : RlpUpdate(p)
    \/ \E p \in PriceProcs \ {Job} : ReducePriceRoute(p)
    \/ \E p \in PriceProcs \ {Job} : PutListing(p, LowPriceBodies)
    \/ \E p \in PriceProcs : UlpRead(p)
    \/ \E p \in PriceProcs : UlpHistory(p)
    \/ \E p \in PriceProcs : UlpUpdate(p)
    \/ \E p \in PriceProcs : PutUpdate(p)
    \/ AdminUpdateStatus

Spec == Init /\ [][Next]_vars

\* the editing system: a client request beside the admin routes, no clock
EditProcs == {"r1"}

NextEdit ==
    \/ \E p \in EditProcs : CreateListing(p)
    \/ \E p \in EditProcs : CreateListingIds(p, BOOLEAN)
    \/ \E p \in EditProcs : RlpHistory(p)
    \/ \E p \in EditProcs : RlpUpdate(p)
    \/ \E p \in EditProcs : ReducePriceRoute(p)
    \/ \E p \in EditProcs : PutListing(p, PutBodies)
    \/ \E p \in EditProcs : UlpRead(p)
    \/ \E p \in EditProcs : UlpHistory(p)
    \/ \E p \in EditProcs : UlpUpdate(p)
    \/ \E p \in EditProcs : PutUpdate(p)
    \/ \E p \in EditProcs : DeleteListing(p)
    \/ \E p \in EditProcs : DeleteRow(p)
    \/ AdminUpdateListing
    \/ AdminUpdateStatus

SpecEdit == Init /\ [][NextEdit]_vars

\* the sold reconciliation: two client requests beside the status routes
NextSold ==
    \/ \E p \in Requests : CreateListing(p)
    \/ \E p \in Requests : CreateListingIds(p, BOOLEAN)
    \/ \E p \in Requests : CheckSold(p)
    \/ \E p \in Requests : CsStatus(p)
    \/ \E p \in Requests : CsProfit(p)
    \/ \E p \in Requests : PutListing(p, StatusBodies)
    \/ \E p \in Requests : PutUpdate(p)
    \/ AdminUpdateStatus

SpecSold == Init /\ [][NextSold]_vars

\* the reconciliation of one listing: its check-sold passes run one after
\* another, nothing else writes the listing
ReconcileProcs == {"r1"}

NextReconcile ==
    \/ \E p \in ReconcileProcs : CreateListing(p)
    \/ \E p \in ReconcileProcs : CreateListingIds(p, BOOLEAN)
    \/ \E p \in ReconcileProcs : CheckSold(p)
    \/ \E p \in ReconcileProcs : CsStatus(p)
    \/ \E p \in ReconcileProcs : CsProfit(p)

SpecReconcile == Init /\ [][NextReconcile]_vars

\* the decay of one listing: a listing created with a price and a minimum
\* price in dollars and cents, reduced by one client time after time
DecayProcs == {"r1"}

InitDecay ==
    /\ \E c \in DecayPrices, m \in DecayMinPrices, e \in BOOLEAN, f \in BOOLEAN :
        listings = [l \in ListingIds |->
              [row |-> "present", user_id |-> "u1", status |-> "active", price |-> c,
               original_price |-> c, min_price |-> m, last_price_update |-> 0,
               ebay_listing_id |-> e, facebook_listing_id |-> f]]
    /\ price_history = [l \in ListingIds |-> <<>>]
    /\ profits = <<>>
    /\ payout_requests = <<>>
    /\ notifications = NoNotifications
    /\ now = 0
    /\ faults = 0
    /\ pc = [p \in Procs |-> "idle"]
    /\ lid = [p \in Procs |-> "L1"]
    /\ snap = [p \in Procs |-> NoSnap]
    /\ arg = [p \in Procs |-> NoArg]
    /\ res = [p \in Procs |-> "none"]
    /\ jobQueue = <<>>

NextDecay ==
    \/ \E p \in DecayProcs : ReducePriceRoute(p)
    \/ \E p \in DecayProcs : RlpHistory(p)
    \/ \E p \in DecayProcs : RlpUpdate(p)

SpecDecay == InitDecay /\ [][NextDecay]_vars

\* the check-sold passes of one client beside the price changes another
\* client makes to the same listing
SoldProcs == {"r1"}
PricingProcs == {"r2"}

NextSoldPrice ==
    \/ \E p \in SoldProcs : CreateListing(p)
    \/ \E p \in SoldProcs : CreateListingIds(p, {TRUE})
    \/ \E p \in SoldProcs : CheckSold(p)
    \/ \E p \in SoldProcs : CsStatus(p)
    \/ \E p \in SoldProcs : CsProfit(p)
    \/ \E p \in PricingProcs : ReducePriceRoute(p)
    \/ \E p \in PricingProcs : RlpHistory(p)
    \/ \E p \in PricingProcs : RlpUpdate(p)
    \/ \E p \in PricingProcs : PutListing(p, LowPriceBodies)
    \/ \E p \in PricingProcs : UlpRead(p)
    \/ \E p \in PricingProcs : UlpHistory(p)
    \/ \E p \in PricingProcs : UlpUpdate(p)
    \/ \E p \in PricingProcs : PutUpdate(p)

SpecSoldPrice == Init /\ [][NextSoldPrice]_vars

\* the payout ledger: settlements of sold listings wait for completion,
\* two client requests ask for payouts
Settlement(l, u, a, f, sh) ==
    [listing_id |-> l, user_id |-> u, amount |-> a, fees |-> f,
     shipping_cost |-> sh, platform |-> "ebay", status |-> "pending"]

LedgerContents ==
    { <<Settlement("L1", "u1", 100, 5, 10)>>,
      <<Settlement("L1", "u1", 100, 5, 10), Settlement("L2", "u2", 60, 0, 0)>>,
      <<Settlement("L1", "u1", 60, 0, 0), Settlement("L2", "u1", 40, 0, 0)>> }

InitPayout ==
    /\ listings = [l \in ListingIds |-> NoRow]
    /\ price_history = [l \in ListingIds |-> <<>>]
    /\ profits \in LedgerContents
    /\ payout_requests = <<>>
    /\ notifications = NoNotifications
    /\ now = 0
    /\ faults = 0
    /\ pc = [p \in Procs |-> "idle"]
    /\ lid = [p \in Procs |-> "L1"]
    /\ snap = [p \in Procs |-> NoSnap]
    /\ arg = [p \in Procs |-> NoArg]
    /\ res = [p \in Procs |-> "none"]
    /\ jobQueue = <<>>

NextPayout ==
    \/ CompleteProfit
    \/ \E p \in Requests : CreatePayoutRequest(p)
    \/ \E p \in Requests : PayoutCheck(p)
    \/ \E p \in Requests : PayoutInsert(p)

SpecPayout == InitPayout /\ [][NextPayout]_vars

\* the payout requests' life: one client request beside the operator's
\* routes, which confirm settlements and decide payout requests
LedgerProcs == {"r1"}

NextLedger ==
    \/ CompleteProfit
    \/ \E p \in LedgerProcs : CreatePayoutRequest(p)
    \/ \E p \in LedgerProcs : PayoutCheck(p)
    \/ \E p \in LedgerProcs : PayoutInsert(p)
    \/ PutPayoutStatus
    \/ AdminProcessPayout
    \/ AdminProcessAll
    \/ \E p \in LedgerProcs : AdminProcessOne(p)
    \/ \E p \in LedgerProcs : ApoUpdate(p)

SpecLedger == InitPayout /\ [][NextLedger]_vars

\* the scheduled job alone: two listings wait for it, the clock runs
InitJob ==
    /\ \E c1 \in JobPrices, c2 \in JobPrices, m \in JobMinPrices,
          e \in BOOLEAN, f \in BOOLEAN :
        listings = [l \in JobListingIds |->
              [row |-> "present", user_id |-> "u1", status |-> "active",
               price |-> IF l = "L1" THEN c1 ELSE c2,
               original_price |-> IF l = "L1" THEN c1 ELSE c2,
               min_price |-> m, last_price_update |-> 0,
               ebay_listing_id |-> e, facebook_listing_id |-> f]]
    /\ price_history = [l \in JobListingIds |-> <<>>]
    /\ profits = <<>>
    /\ payout_requests = <<>>
    /\ notifications = NoNotifications
    /\ now = 0
    /\ faults = 0
    /\ pc = [p \in Procs |-> "idle"]
    /\ lid = [p \in Procs |-> "L1"]
    /\ snap = [p \in Procs |-> NoSnap]
    /\ arg = [p \in Procs |-> NoArg]
    /\ res = [p \in Procs |-> "none"]
    /\ jobQueue = <<>>

NextJob ==
    \/ Tick
    \/ SchedulePriceReductions
    \/ RlpHistory(Job)
    \/ RlpUpdate(Job)

SpecJob == InitJob /\ [][NextJob]_vars

\* the clock past the horizon: the gate compares differences of times only,
\* so every time is kept relative to the horizon and the clock runs for ever
TickHorizon ==
    /\ \E d \in TickSteps :
        /\ now + d > MaxNow
        /\ now' = now
        /\ listings' = [l \in DOMAIN listings |->
              [listings[l] EXCEPT !.last_price_update =
                  IF @ > d THEN @ - d ELSE 0]]
        /\ price_history' = [l \in DOMAIN price_history |->
              [i \in 1..Len(price_history[l]) |->
                  [price_history[l][i] EXCEPT !.created_at =
                      IF @ > d THEN @ - d ELSE 0]]]
    /\ UNCHANGED <<profits, payout_requests, notifications, procVars, jobQueue, faults>>

\* everything index.js schedules, run fairly: the daily job is started and
\* each of its steps is taken, the clock advances; no client sends a
\* request. Two published listings one reduction away from their minimum
InitScheduled ==
    /\ \E c1 \in ScheduledPrices, c2 \in ScheduledPrices,
          e \in BOOLEAN, f \in BOOLEAN :
        /\ e \/ f
        /\ listings = [l \in JobListingIds |->
              [row |-> "present", user_id |-> "u1", status |-> "active",
               price |-> IF l = "L1" THEN c1 ELSE c2,
               original_price |-> IF l = "L1" THEN c1 ELSE c2,
               min_price |-> 5000, last_price_update |-> 0,
               ebay_listing_id |-> e, facebook_listing_id |-> f]]
    /\ price_history = [l \in JobListingIds |-> <<>>]
    /\ profits = <<>>
    /\ payout_requests = <<>>
    /\ notifications = NoNotifications
    /\ now = 0
    /\ faults = 0
    /\ pc = [p \in Procs |-> "idle"]
    /\ lid = [p \in Procs |-> "L1"]
    /\ snap = [p \in Procs |-> NoSnap]
    /\ arg = [p \in Procs |-> NoArg]
    /\ res = [p \in Procs |-> "none"]
    /\ jobQueue = <<>>

NextScheduled ==
    \/ Tick
    \/ TickHorizon
    \/ SchedulePriceReductions
    \/ RlpHistory(Job)
    \/ RlpUpdate(Job)

SpecScheduled ==
    /\ InitScheduled /\ [][NextScheduled]_vars
    /\ WF_vars(Tick)
    /\ WF_vars(TickHorizon)
    /\ WF_vars(SchedulePriceReductions)
    /\ WF_vars(RlpHistory(Job))
    /\ WF_vars(RlpUpdate(Job))

\* the creation: a client creates a listing at one of several prices, with
\* and without a minimum price, beside the clock
CreateProcs == {"r1"}

NextCreate ==
    \/ Tick
    \/ \E p \in CreateProcs : CreateListingWith(p, CreationPrices, CreationMinPrices)
    \/ \E p \in CreateProcs : CreateListingIds(p, BOOLEAN)

SpecCreate == Init /\ [][NextCreate]_vars

\* the removal: two clients create a listing and delete it
RemoveProcs == {"r1", "r2"}

NextRemove ==
    \/ \E p \in RemoveProcs : CreateListing(p)
    \/ \E p \in RemoveProcs : CreateListingIds(p, BOOLEAN)
    \/ \E p \in RemoveProcs : DeleteListing(p)
    \/ \E p \in RemoveProcs : DeleteRow(p)

SpecRemove == Init /\ [][NextRemove]_vars

\* the balance computation over a store whose settlements are confirmed and
\* reverted and whose payout requests are decided while it runs
PayoutRow(u, a, st) == [user_id |-> u, amount |-> a, status |-> st]

PayoutContents ==
    { <<>>,
      <<PayoutRow("u1", 50, "pending")>>,
      <<PayoutRow("u1", 50, "completed"), PayoutRow("u2", 50, "pending")>>,
      <<PayoutRow("u1", 10, "rejected"), PayoutRow("u1", 50, "pending")>> }

BalanceProcs == {"r1"}

InitBalance ==
    /\ listings = [l \in ListingIds |-> NoRow]
    /\ price_history = [l \in ListingIds |-> <<>>]
    /\ profits \in LedgerContents
    /\ payout_requests \in PayoutContents
    /\ notifications = NoNotifications
    /\ now = 0
    /\ faults = 0
    /\ pc = [p \in Procs |-> "idle"]
    /\ lid = [p \in Procs |-> "L1"]
    /\ snap = [p \in Procs |-> NoSnap]
    /\ arg = [p \in Procs |-> NoArg]
    /\ res = [p \in Procs |-> "none"]
    /\ jobQueue = <<>>

NextBalance ==
    \/ PutProfitStatus
    \/ PutPayoutStatus
    \/ \E p \in BalanceProcs : GetAvailable(p)
    \/ \E p \in BalanceProcs : AvailPayouts(p)
    \/ \E p \in BalanceProcs : AvailRespond(p)

SpecBalance == InitBalance /\ [][NextBalance]_vars

\* the settlements' life: the reconciliation pass creates them, the
\* profits route sets their status
NextSettle ==
    \/ \E p \in ReconcileProcs : CreateListing(p)
    \/ \E p \in ReconcileProcs : CreateListingIds(p, BOOLEAN)
    \/ \E p \in ReconcileProcs : CheckSold(p)
    \/ \E p \in ReconcileProcs : CsStatus(p)
    \/ \E p \in ReconcileProcs : CsProfit(p)
    \/ PutProfitStatus

SpecSettle == Init /\ [][NextSettle]_vars

\* ======================================================== claims ========
NumProfits(l) == Cardinality({i \in 1..Len(profits) : profits[i].listing_id = l})

\* C1: every active listing has price >= min_price in every reachable state
C1_PriceAtLeastMinimum ==
    \A l \in ListingIds :
        (Present(l) /\ listings[l].status = "active")
            => listings[l].price >= listings[l].min_price

\* C2: while a listing is active no step takes its stored price from p to a
\* value greater than p
C2_PriceNeverIncreases ==
    [][\A l \in ListingIds :
        (Present(l) /\ listings[l].status = "active"
            /\ listings'[l].row = "present" /\ listings'[l].status = "active")
            => listings'[l].price <= listings[l].price]_vars

\* C3: once a check-sold pass in which a marketplace reported the item sold
\* has completed, the listing has exactly one profit record
C3_ExactlyOneSettlement ==
    \A p \in Requests :
        (pc[p] = "idle" /\ res[p] = "sold") => NumProfits(lid[p]) = 1

\* C4: for every seller the net amount of the completed settlements minus the
\* pending and completed payout requests is never negative
C4_BalanceNonNegative ==
    \A u \in Users : SumNet(profits, u) - SumPaidOut(payout_requests, u) >= 0

\* C5: no payout request below the $50 minimum is ever inserted
C5_MinimumPayout ==
    \A i \in 1..Len(payout_requests) : payout_requests[i].amount >= 50

RECURSIVE PendingOrCompleted(_, _)
PendingOrCompleted(rows, u) ==
    IF rows = <<>> THEN 0
    ELSE (IF Head(rows).user_id = u /\ Head(rows).status \in {"pending", "completed"}
          THEN Head(rows).amount ELSE 0) + PendingOrCompleted(Tail(rows), u)

\* C6: a request whose amount exceeds the available balance at the moment it
\* is tested (completed net profits it read minus the pending and completed
\* payout requests in the store) is rejected and nothing is inserted
C6_OverBalanceRejected ==
    [][\A p \in Requests :
        (pc[p] = "pay_payouts" /\ pc'[p] # "pay_payouts"
            /\ arg[p].amount > arg[p].totalProfit
                                 - PendingOrCompleted(payout_requests, arg[p].user_id))
            => (pc'[p] = "idle" /\ res'[p] \in {"rejected", "error"}
                    /\ payout_requests' = payout_requests)]_vars

\* C6, scenario D: net 85 completed, a first request of 50 pending, and a
\* later request was rejected
C6_Witness ==
    /\ \E i \in 1..Len(profits) :
          /\ profits[i].user_id = "u1" /\ profits[i].status = "completed"
          /\ profits[i].amount - profits[i].fees - profits[i].shipping_cost = 85
    /\ payout_requests = <<[user_id |-> "u1", amount |-> 50, status |-> "pending"]>>
    /\ res["r1"] = "accepted" /\ pc["r1"] = "idle"
    /\ res["r2"] = "rejected" /\ pc["r2"] = "idle"

\* C7: a manual price update to a price below the listing's min_price is
\* rejected and changes neither the listing nor the price history
C7_BelowMinimumRejected ==
    [][\A p \in Requests :
        (pc[p] \in {"ulp_hist", "ulp_upd"} /\ pc'[p] # pc[p]
            /\ Present(lid[p]) /\ arg[p].price < listings[lid[p]].min_price)
            => (res'[p] = "rejected" /\ listings' = listings
                    /\ price_history' = price_history)]_vars

\* C8 as stated: two runs of the price decay on a listing less than 7 days
\* apart leave at most one automatic price history entry
C8_AtMostOneEntry ==
    \A l \in ListingIds : \A i, j \in 1..Len(price_history[l]) :
        (i < j /\ price_history[l][i].reason = "automatic"
               /\ price_history[l][j].reason = "automatic")
            => price_history[l][j].created_at - price_history[l][i].created_at
                  > SevenDays

\* C8 amended: the scheduled job selects no listing whose last price update
\* is 7 days old or less, changes only the listing it selected, and a
\* successful reduction stamps last_price_update with the current time, which
\* never goes back; so a scheduled run right after a successful one is a no-op
C8_ScheduledGate ==
    [][/\ (pc[Job] = "idle" /\ jobQueue' # <<>>) =>
            \A i \in 1..Len(jobQueue') :
                now - listings[jobQueue'[i].id].last_price_update > SevenDays
       /\ \A l \in ListingIds :
            (pc'[Job] # pc[Job]
                /\ (price_history'[l] # price_history[l] \/ listings'[l] # listings[l]))
                => (l = lid[Job] /\ Len(jobQueue) > 0 /\ jobQueue[1].id = l)
       /\ \A l \in ListingIds :
            (pc[Job] = "rlp_upd" /\ pc'[Job] # pc[Job] /\ l = lid[Job]
                /\ listings'[l].price # listings[l].price)
                => listings'[l].last_price_update = now
       /\ \A l \in ListingIds :
            (Present(l) /\ listings'[l].row = "present")
                => listings'[l].last_price_update >= listings[l].last_price_update
      ]_vars

\* C8: the scheduled job reduced the listing and its next run, at the same
\* time, found nothing to reduce
C8_Witness ==
    /\ pc[Job] = "idle" /\ res[Job] = "nothing"
    /\ res["r1"] = "created"
    /\ Present("L1") /\ listings["L1"].status = "active"
    /\ listings["L1"].last_price_update = now
    /\ Len(price_history["L1"]) = 1
    /\ price_history["L1"][1].reason = "automatic"
    /\ price_history["L1"][1].new_price = listings["L1"].price

\* C9: once a listing's status is sold, ended or removed no step changes
\* the status again
C9_TerminalStatuses ==
    [][\A l \in ListingIds :
        (Present(l) /\ listings[l].status \in {"sold", "ended", "removed"}
            /\ listings'[l].row = "present")
            => listings'[l].status = listings[l].status]_vars

\* C10: every listing with status sold has a settlement record
C10_SoldHasSettlement ==
    \A l \in ListingIds :
        (Present(l) /\ listings[l].status = "sold") => NumProfits(l) >= 1

\* C11: a check-sold pass on a listing published on both marketplaces in
\* which eBay reported the item sold did not ask Facebook, whatever it would
\* have answered, attributes the sale to eBay and creates exactly one
\* settlement record, with platform ebay
C11_EbayFirstOneSettlement ==
    [][\A p \in Requests :
        (pc[p] = "cs_profit" /\ pc'[p] = "idle" /\ arg[p].ebayResult = "sold"
            /\ snap[p].ebay_listing_id /\ snap[p].facebook_listing_id)
            => /\ arg[p].facebookResult = "none"
               /\ arg[p].soldPlatform = "ebay"
               /\ Len(profits') = Len(profits) + 1
               /\ profits'[Len(profits')].platform = "ebay"
               /\ profits'[Len(profits')].listing_id = lid[p]]_vars

\* C12: a check-sold pass in which no adapter answered "sold" (an error
\* counts as such) ends without changing the listing, the settlement records
\* or the notifications
C12_ErrorIsNotSold ==
    [][\A p \in Requests :
        (pc[p] = "cs_status" /\ pc'[p] # "cs_status"
            /\ arg[p].ebayResult # "sold" /\ arg[p].facebookResult # "sold")
            => /\ pc'[p] = "idle" /\ res'[p] = "not_sold"
               /\ listings' = listings /\ profits' = profits
               /\ notifications' = notifications]_vars

\* C12: both adapters were asked about an active listing and both failed
C12_Witness ==
    \E p \in Requests :
        /\ pc[p] = "cs_status"
        /\ arg[p].ebayResult = "error" /\ arg[p].facebookResult = "error"
        /\ Present(lid[p]) /\ listings[lid[p]].status = "active"

\* r is a cent nearest to nine tenths of c cents
NearestCent(c, r) == 10 * r - 9 * c \in -5..5

\* C13: a reduction that writes the listing writes the cent nearest to 0.9
\* times the price it was given, or the minimum price when that is higher:
\* 100.00 -> 90.00 -> 81.00 -> 72.90 -> 65.61, and with minimum 50.00
\* 52.00 -> 50.00; a reduction given a price equal to the minimum writes
\* nothing
C13_ReductionValue ==
    [][\A p \in Procs :
        /\ (pc[p] = "rlp_upd" /\ listings'[lid[p]] # listings[lid[p]]) =>
              LET c == snap[p].price
                  m == snap[p].min_price
                  q == listings'[lid[p]].price
              IN /\ \E r \in 0..c :
                      /\ NearestCent(c, r)
                      /\ q = IF r < m THEN m ELSE r
                 /\ c = 10000 => q = 9000
                 /\ (c = 9000 /\ m <= 5000) => q = 8100
                 /\ (c = 8100 /\ m <= 5000) => q = 7290
                 /\ (c = 7290 /\ m <= 5000) => q = 6561
                 /\ (c = 5200 /\ m = 5000) => q = 5000
        /\ (pc[p] = "rlp_hist" /\ pc'[p] # "rlp_hist"
                /\ snap[p].price = snap[p].min_price) =>
              (listings' = listings /\ price_history' = price_history)]_vars

\* C13: 81.00 was reduced to 72.90 and then to 65.61
C13_Witness ==
    /\ listings["L1"].price = 6561 /\ listings["L1"].min_price = 5000
    /\ Len(price_history["L1"]) = 2
    /\ price_history["L1"][1].previous_price = 8100
    /\ price_history["L1"][1].new_price = 7290
    /\ price_history["L1"][2].previous_price = 7290
    /\ price_history["L1"][2].new_price = 6561
    /\ \A p \in Procs : pc[p] = "idle"

\* C14: whenever no check-sold pass is under way, a listing has status sold
\* if and only if a settlement record exists for it
C14_SoldIffSettlement ==
    \A l \in ListingIds :
        (Present(l) /\ \A p \in Requests : pc[p] \notin {"cs_status", "cs_profit"})
            => (listings[l].status = "sold" <=> NumProfits(l) >= 1)

\* C15: the settlement record a check-sold pass inserts has status pending,
\* the platform that reported the sale, and as amount the price the listing
\* has in the store at the step that makes its status sold
C15_SettlementAtSalePrice ==
    [][\A p \in Requests :
        /\ (pc[p] = "cs_status" /\ pc'[p] = "cs_profit" /\ Present(lid[p])
                /\ listings[lid[p]].status # "sold"
                /\ listings'[lid[p]].status = "sold") =>
              snap[p].price = listings[lid[p]].price
        /\ (pc[p] = "cs_profit" /\ pc'[p] = "idle" /\ profits' # profits) =>
              /\ Len(profits') = Len(profits) + 1
              /\ profits'[Len(profits')].status = "pending"
              /\ profits'[Len(profits')].platform = arg[p].soldPlatform
              /\ profits'[Len(profits')].amount = snap[p].price
              /\ arg[p].soldPlatform \in {"ebay", "facebook"}]_vars

\* C16: no step changes the price or the last_price_update of a listing whose
\* status is not active
C16_PriceWritesOnlyWhenActive ==
    [][\A l \in ListingIds :
        (Present(l) /\ listings[l].status # "active" /\ listings'[l].row = "present")
            => /\ listings'[l].price = listings[l].price
               /\ listings'[l].last_price_update = listings[l].last_price_update]_vars

\* C17: the listings a scheduled run selects are active and were last
\* updated at least 7 days before; the run writes the price and the history
\* of the listings it selected only, and a run that selects nothing writes
\* nothing
C17_ScheduledSelection ==
    [][/\ (pc[Job] = "idle" /\ jobQueue' # <<>>) =>
            \A i \in 1..Len(jobQueue') :
                /\ Present(jobQueue'[i].id)
                /\ listings[jobQueue'[i].id].status = "active"
                /\ now - listings[jobQueue'[i].id].last_price_update >= SevenDays
       /\ (pc[Job] = "idle" /\ res'[Job] # res[Job]) =>
            (listings' = listings /\ price_history' = price_history)
       /\ \A l \in ListingIds :
            (pc[Job] # "idle" /\ pc'[Job] # pc[Job]
                /\ (listings'[l] # listings[l]
                        \/ price_history'[l] # price_history[l]))
                => \E i \in 1..Len(jobQueue) : jobQueue[i].id = l
      ]_vars

\* C17: the scheduled job selected the listing 8 days after its creation
\* and reduced its price; no client reduced it
C17_Witness ==
    /\ pc[Job] = "idle" /\ res[Job] = "selected"
    /\ pc["r1"] = "idle" /\ res["r1"] = "created"
    /\ listings["L1"].status = "active"
    /\ listings["L1"].price < listings["L1"].original_price
    /\ listings["L1"].last_price_update >= SevenDays
    /\ Len(price_history["L1"]) = 1
    /\ price_history["L1"][1].reason = "automatic"

\* C18: a reduction given a listing whose price equals its minimum price
\* ends at once: no history entry, no adapter call, no notification, and the
\* listing row is unchanged
C18_AtMinimumNoOp ==
    [][\A p \in Procs :
        (pc[p] = "rlp_hist" /\ pc'[p] # "rlp_hist"
            /\ snap[p].price = snap[p].min_price)
            => /\ listings' = listings
               /\ price_history' = price_history
               /\ notifications' = notifications
               /\ arg'[p].ebayUpdateResult = "none"
               /\ arg'[p].fbUpdateResult = "none"
               /\ pc'[p] # "rlp_upd"]_vars

\* C18: 52.00 was reduced to its minimum 50.00 and the next reduction of
\* the listing, published on both marketplaces, found it at the minimum
C18_Witness ==
    /\ pc["r1"] = "idle" /\ res["r1"] = "at_minimum"
    /\ listings["L1"].price = 5000 /\ listings["L1"].min_price = 5000
    /\ listings["L1"].ebay_listing_id /\ listings["L1"].facebook_listing_id
    /\ listings["L1"].original_price = 5200
    /\ Len(price_history["L1"]) = 1
    /\ notifications.price_reduction = 1

\* C19: a reduction that is not skipped calls the adapter of every
\* marketplace the listing is published on, whatever the other one answered,
\* goes on to the update of the listing, and the update the store accepts
\* writes the new price
C19_AdapterFailureDoesNotBlock ==
    [][\A p \in Procs :
        /\ (pc[p] = "rlp_hist" /\ pc'[p] # "rlp_hist"
                /\ snap[p].price > snap[p].min_price) =>
              /\ pc'[p] = "rlp_upd"
              /\ snap[p].ebay_listing_id => arg'[p].ebayUpdateResult # "none"
              /\ snap[p].facebook_listing_id => arg'[p].fbUpdateResult # "none"
        /\ (pc[p] = "rlp_upd" /\ pc'[p] # "rlp_upd" /\ Present(lid[p])
                /\ (faults' = faults \/ (p # Job /\ res'[p] = "ok"))) =>
              /\ listings'[lid[p]].price = ReducedPrice(snap[p])
              /\ listings'[lid[p]].last_price_update = now]_vars

\* C19: the eBay call failed, the Facebook call was made and succeeded, the
\* history entry is written and the reduction is at the update of the listing
C19_Witness ==
    /\ pc["r1"] = "rlp_upd"
    /\ arg["r1"].ebayUpdateResult = "error" /\ arg["r1"].fbUpdateResult = "ok"
    /\ Len(price_history["L1"]) = 1
    /\ price_history["L1"][1].new_price = 9000

\* C20: whenever no price change is under way, the price history of a
\* listing is the chain of its price changes: it starts at the original
\* price, each entry starts where the one before ended, and it ends at the
\* listing's price
C20_HistoryMatchesPrice ==
    \A l \in ListingIds :
        (Present(l) /\ \A p \in Procs : pc[p] = "idle") =>
            LET h == price_history[l]
            IN IF h = <<>>
               THEN listings[l].price = listings[l].original_price
               ELSE /\ h[1].previous_price = listings[l].original_price
                    /\ h[Len(h)].new_price = listings[l].price
                    /\ \A i \in 1..(Len(h) - 1) :
                          h[i + 1].previous_price = h[i].new_price

RECURSIVE CompletedNet(_, _, _)
CompletedNet(rows, u, n) ==
    IF n = 0 THEN 0
    ELSE CompletedNet(rows, u, n - 1)
           + (IF rows[n].user_id = u /\ rows[n].status = "completed"
              THEN rows[n].amount - rows[n].fees - rows[n].shipping_cost
              ELSE 0)

\* C21: the balance computation returns the sum over the user's completed
\* settlements of amount - fees - shipping minus the sum of the user's
\* payout requests that are pending or completed; pending settlements and
\* rejected requests contribute nothing, so the rejection of a pending
\* request raises the balance computed on the store by its amount
C21_AvailableAmount ==
    [][/\ \A p \in Requests :
            /\ (pc[p] = "idle" /\ pc'[p] = "avail_payouts")
                  => arg'[p].totalProfit
                       = CompletedNet(profits, arg'[p].user_id, Len(profits))
            /\ (pc[p] = "avail_payouts" /\ pc'[p] = "avail_done")
                  => arg'[p].availableAmount
                       = arg[p].totalProfit
                           - PendingOrCompleted(payout_requests, arg[p].user_id)
       /\ \A i \in 1..Len(payout_requests) :
            (payout_requests[i].status = "pending"
                /\ payout_requests' =
                      [payout_requests EXCEPT ![i].status = "rejected"])
              => LET u == payout_requests[i].user_id
                 IN SumNet(profits', u) - SumPaidOut(payout_requests', u)
                      = SumNet(profits, u) - SumPaidOut(payout_requests, u)
                          + payout_requests[i].amount]_vars

\* C21: of two settlements of 60 and 40 only the first is completed, one
\* request of 50 was rejected, and the computation has just returned 60
C21_Witness ==
    /\ pc["r1"] = "avail_done" /\ arg["r1"].user_id = "u1"
    /\ arg["r1"].availableAmount = 60
    /\ Len(profits) = 2
    /\ profits[1].status = "completed" /\ profits[2].status = "pending"
    /\ profits[1].user_id = "u1" /\ profits[2].user_id = "u1"
    /\ payout_requests = <<PayoutRow("u1", 10, "rejected"),
                           PayoutRow("u1", 50, "rejected")>>

\* C22: a payout request is created pending and its status moves only from
\* pending to completed or from pending to rejected; a request that is
\* completed or rejected keeps its status in every step
C22_PayoutDecidedOnce ==
    [][/\ Len(payout_requests') >= Len(payout_requests)
       /\ \A i \in 1..Len(payout_requests') :
            IF i > Len(payout_requests)
            THEN payout_requests'[i].status = "pending"
            ELSE \/ payout_requests'[i].status = payout_requests[i].status
                 \/ /\ payout_requests[i].status = "pending"
                    /\ payout_requests'[i].status \in {"completed", "rejected"}]_vars

\* C23: a settlement is created pending and its status moves only from
\* pending to completed; a settlement that is completed stays completed
C23_SettlementCompletedOnce ==
    [][/\ Len(profits') >= Len(profits)
       /\ \A i \in 1..Len(profits') :
            IF i > Len(profits)
            THEN profits'[i].status = "pending"
            ELSE \/ profits'[i].status = profits[i].status
                 \/ /\ profits[i].status = "pending"
                    /\ profits'[i].status = "completed"]_vars

\* C24: the removal of a listing first requests its end on every
\* marketplace the listing is published to and only then deletes the row,
\* and the row is deleted whatever the end calls returned: only an error
\* of the store itself leaves the row in place
C24_RemovalEndsThenDeletes ==
    [][\A p \in RemoveProcs :
        /\ (pc[p] = "idle" /\ pc'[p] # "create_ids" /\ faults' = faults
               /\ (pc'[p] # "idle" \/ res'[p] # res[p]))
              => /\ pc'[p] = "del_delete" /\ listings' = listings
                 /\ arg'[p].ebayResult \in EndResults
                       <=> listings[lid'[p]].ebay_listing_id
                 /\ arg'[p].facebookResult \in EndResults
                       <=> listings[lid'[p]].facebook_listing_id
        /\ (pc[p] = "del_delete" /\ pc'[p] # "del_delete" /\ faults' = faults)
              => (res'[p] = "ok" /\ listings'[lid[p]].row = "deleted")]_vars

\* C24: a listing published on both marketplaces, both end calls failed,
\* and the row is about to be deleted
C24_Witness ==
    /\ pc["r1"] = "del_delete" /\ Present(lid["r1"])
    /\ listings[lid["r1"]].ebay_listing_id
    /\ listings[lid["r1"]].facebook_listing_id
    /\ arg["r1"].ebayResult = "error" /\ arg["r1"].facebookResult = "error"

\* C25: a listing that is created is active, its price is its original
\* price and the price asked, its last_price_update is the time of creation
\* and its min_price is the value supplied or, when none is supplied, half
\* the original price to the nearest cent; what the publish calls return
\* changes none of these fields
C25_CreatedListing ==
    [][\A p \in Requests :
        /\ (pc[p] = "idle" /\ pc'[p] = "create_ids")
              => LET row == listings'[lid'[p]]
                 IN /\ listings[lid'[p]].row = "unused" /\ row.row = "present"
                    /\ row.status = "active"
                    /\ row.price = arg'[p].price
                    /\ row.original_price = row.price
                    /\ row.last_price_update = now
                    /\ IF arg'[p].min_price # -1
                       THEN row.min_price = arg'[p].min_price
                       ELSE 2 * row.min_price - row.original_price \in -1..1
        /\ (pc[p] = "create_ids" /\ pc'[p] = "idle")
              => LET old == listings[lid[p]]
                     row == listings'[lid[p]]
                 IN /\ row.row = "present" /\ row.status = "active"
                    /\ row.price = old.price
                    /\ row.original_price = old.original_price
                    /\ row.min_price = old.min_price
                    /\ row.last_price_update = old.last_price_update]_vars

\* C25: a listing created at 1.15 without a minimum price at time 4, which
\* neither marketplace published
C25_Witness ==
    /\ pc["r1"] = "idle" /\ res["r1"] = "created"
    /\ listings["L1"].row = "present" /\ listings["L1"].status = "active"
    /\ listings["L1"].price = 115 /\ listings["L1"].original_price = 115
    /\ listings["L1"].min_price = 57
    /\ listings["L1"].last_price_update = 4
    /\ ~listings["L1"].ebay_listing_id /\ ~listings["L1"].facebook_listing_id

\* C26: the min_price and the original_price of a listing are those of its
\* creation: no step changes either while the row exists
C26_FloorAndOriginalFixed ==
    [][\A l \in ListingIds :
        (Present(l) /\ listings'[l].row = "present")
          => /\ listings'[l].min_price = listings[l].min_price
             /\ listings'[l].original_price = listings[l].original_price]_vars

\* C27: an active listing that the scheduled job finds eligible is reduced:
\* each reduction the job applies to a listing whose price is above its
\* minimum lowers the price, which is what brings the price to the minimum
\* after finitely many runs
C27_EligibleIsReduced ==
    [][\A l \in DOMAIN listings :
        (pc[Job] = "rlp_upd" /\ lid[Job] = l
            /\ listings[l].status = "active"
            /\ listings[l].price > listings[l].min_price
            /\ listings'[l].last_price_update # listings[l].last_price_update)
          => listings'[l].price < listings[l].price]_vars

\* C29: in a run of the scheduled job every listing the run selected is
\* processed in turn: when the reduction of one listing ends, with whatever
\* result, the run goes on to the next listing of its selection, and it ends
\* only after the last one
C29_RunGoesOn ==
    [][(pc[Job] \in {"rlp_hist", "rlp_upd"}
           /\ (pc'[Job] = "idle" \/ jobQueue' # jobQueue \/ lid'[Job] # lid[Job]))
        => /\ jobQueue # <<>> /\ jobQueue[1].id = lid[Job]
           /\ jobQueue' = Tail(jobQueue)
           /\ IF Len(jobQueue) > 1
              THEN pc'[Job] = "rlp_hist" /\ lid'[Job] = jobQueue[2].id
              ELSE pc'[Job] = "idle"]_vars

\* C29: the listing update of the first listing of a run failed, its price
\* is unchanged, and the run has reduced the second one
C29_Witness ==
    \E l1 \in DOMAIN listings, l2 \in DOMAIN listings :
        /\ l1 # l2 /\ pc[Job] = "idle" /\ jobQueue = <<>> /\ faults = 1
        /\ Len(price_history[l1]) = 1
        /\ listings[l1].price = listings[l1].original_price
        /\ listings[l1].last_price_update = 0
        /\ Len(price_history[l2]) = 1
        /\ listings[l2].price < listings[l2].original_price
        /\ listings[l2].last_price_update = now
        /\ price_history[l1][1].created_at = price_history[l2][1].created_at

\* C28: without any client request, an active listing that is published on
\* a marketplace which reports it sold at every poll eventually has the
\* status sold and a settlement record (no poll in these runs returns
\* anything else than sold)
C28_ScheduledReconciliation ==
    \A l \in JobListingIds :
        (listings[l].status = "active"
            /\ (listings[l].ebay_listing_id \/ listings[l].facebook_listing_id))
          ~> (listings[l].status = "sold" /\ NumProfits(l) >= 1)

IsChain(h, row) ==
    IF h = <<>>
    THEN row.price = row.original_price
    ELSE /\ h[1].previous_price = row.original_price
         /\ \A i \in 1..(Len(h) - 1) : h[i + 1].previous_price = h[i].new_price
         /\ h[Len(h)].new_price = row.price

\* C30: the price history of a listing is append-only, and under every
\* interleaving of automatic reductions, manual price updates and admin
\* edits it is a chain once the requests have been answered: the first
\* entry starts at the original price, each entry starts at the new price
\* of the one before, and the last entry ends at the listing's price
C30_HistoryChain ==
    [][\A l \in ListingIds :
        /\ Len(price_history'[l]) >= Len(price_history[l])
        /\ SubSeq(price_history'[l], 1, Len(price_history[l])) = price_history[l]
        /\ (listings'[l].row = "present" /\ \A p \in Procs : pc'[p] = "idle")
              => IsChain(price_history'[l], listings'[l])]_vars

====
